---- MODULE Spec2Model ----
(***************************************************************************)
(* Booking engine of meu-cantinho: reservations of spaces and the payment *)
(* ledger, as implemented by the express handlers over the PostgreSQL      *)
(* tables `spaces`, `reservations` and `payments`.                         *)
(*                                                                         *)
(* Units.  A DATE is a day number, a TIME is minutes after midnight, so    *)
(* `date + time` is a number of minutes.  Stored money (NUMERIC(10,2)) is  *)
(* a number of cents.  A request amount is a decimal with four places, in  *)
(* units of 0.0001, so that the 0.0001 tolerance of registerPayment and    *)
(* the rounding of the NUMERIC(10,2) column are both visible.  Arithmetic  *)
(* is exact decimal arithmetic (float8 rounding error is not modelled).    *)
(***************************************************************************)
EXTENDS Integers, Sequences, FiniteSets, TLC

VARIABLES
    spaces,        \* table spaces: id -> row
    reservations,  \* table reservations: sequence of rows, the id of a row is its index
    payments,      \* table payments: sequence of rows, id = index; a deleted row is Deleted
    procs,         \* request workers running a handler statement by statement
    sym            \* two fresh stores used to compare createReservation on (A,B) and (B,A)

vars == <<spaces, reservations, payments, procs, sym>>

-----------------------------------------------------------------------------
(* Bounds of the model *)

MaxReservations == 2   \* rows ever inserted into reservations
MaxPayments == 2       \* rows ever inserted into payments

(* Program constants *)

MinutesPerDay == 1440
MinutesPerHour == 60
UnitsPerCent == 100    \* request amounts have 4 decimals, NUMERIC(10,2) keeps 2
Epsilon == 1           \* the 0.0001 tolerance, in request units

Null == "null"                 \* an absent text value (undefined / null)
Deleted == [deleted |-> TRUE]  \* a payment row removed by DELETE

\* a field of the request body that is undefined, null or empty: req.missing
\* names the absent fields
Missing(req, field) == field \in req.missing

-----------------------------------------------------------------------------
(* Tables that the booking engine only reads *)

SpaceRows ==
    [ S1 |-> [branch_id |-> "B1", price_per_hour |-> 10000, capacity |-> 1, active |-> TRUE],
      S2 |-> [branch_id |-> "B1", price_per_hour |-> 0,     capacity |-> 1, active |-> TRUE],
      S3 |-> [branch_id |-> "B2", price_per_hour |-> 10000, capacity |-> 2, active |-> FALSE],
      S5 |-> [branch_id |-> "B2", price_per_hour |-> 12550, capacity |-> 2, active |-> TRUE] ]

Customers == {"c1"}

-----------------------------------------------------------------------------
(* Conversions *)

\* check_in_date + start_time, new Date(`${date}T${time}`): minutes since day 0
Timestamp(date, time) == date * MinutesPerDay + time

\* new Date(`${date}T${time}`) is a valid Date only when it can read the text of
\* both of its parts; otherwise getTime() is NaN
ValidDate(req, timeField) == timeField \notin req.unparsed

\* NaN written into a NUMERIC column is stored as NaN, which Postgres orders
\* above every number (NaN >= 0 holds, no sum of amounts reaches it); the same
\* value read back as float8 fails every comparison with a sum of amounts, as a
\* number above all of them does.  It is kept as such a number.
NaNAmount == 10000000

\* a number written into a NUMERIC(10,2) column is rounded half away from zero;
\* x is in request units (0.0001), the result in cents
RoundToCents(x) == (x + (UnitsPerCent \div 2)) \div UnitsPerCent

\* total_amount = diffHours * price_per_hour, stored as NUMERIC(10,2):
\* minutes * (cents per hour) / 60, rounded to the cent
TotalAmount(start, end, price_per_hour) ==
    ((end - start) * price_per_hour + (MinutesPerHour \div 2)) \div MinutesPerHour

-----------------------------------------------------------------------------
(* Responses *)

Resp(code, error) == [code |-> code, error |-> error]
NoResp == Resp(0, "none")

-----------------------------------------------------------------------------
(* createReservation *)

\* variants of the overlap test: touching ends count, and one end only
IntervalsConflictClosed(existingStart, existingEnd, newStart, newEnd) ==
    existingStart <= newEnd /\ newStart <= existingEnd

IntervalsConflictSkewed(existingStart, existingEnd, newStart, newEnd) ==
    existingStart < newEnd /\ newStart <= existingEnd

\* WHERE (check_in_date + start_time) < ($3::date + $5::time)
\*   AND ($2::date + $4::time) < (check_out_date + end_time)
IntervalsConflict(existingStart, existingEnd, newStart, newEnd) ==
    existingStart < newEnd /\ newStart < existingEnd

\* variant of the row filter without the status test
CountsForConflictAnyStatus(row, spaceId) ==
    row.space_id = spaceId

\* variant of the row filter without the space test
CountsForConflictAnySpace(row, spaceId) ==
    row.status # "CANCELLED"

\* WHERE space_id = $1 AND status <> 'CANCELLED'
CountsForConflict(row, spaceId) ==
    row.space_id = spaceId /\ row.status # "CANCELLED"

\* the rows selected by conflictSql
ConflictRows(resv, spaceId, req) ==
    { i \in DOMAIN resv :
        /\ CountsForConflict(resv[i], spaceId)
        /\ IntervalsConflict(Timestamp(resv[i].check_in_date, resv[i].start_time),
                             Timestamp(resv[i].check_out_date, resv[i].end_time),
                             Timestamp(req.check_in_date, req.start_time),
                             Timestamp(req.check_out_date, req.end_time)) }

\* variant of the space lookup without the active test
ActiveSpaceAnyFlag(tbl, spaceId) == spaceId \in DOMAIN tbl

\* SELECT ... FROM spaces WHERE id = $1 AND active = TRUE
ActiveSpace(tbl, spaceId) == spaceId \in DOMAIN tbl /\ tbl[spaceId].active

\* variant of the capacity test that lets one occupant too many through
CapacityExceededByTwo(adults_count, capacity) == adults_count > capacity + 1

\* if (Number(adults_count) > Number(capacity))
CapacityExceeded(adults_count, capacity) == adults_count > capacity

\* if (end <= start): false when start or end is an invalid Date
EndNotAfterStart(req) ==
    /\ ValidDate(req, "start_time")
    /\ ValidDate(req, "end_time")
    /\ Timestamp(req.check_out_date, req.end_time)
         <= Timestamp(req.check_in_date, req.start_time)

\* const total_amount = Number(diffHours * Number(price_per_hour))
RequestTotal(req, price_per_hour) ==
    IF ValidDate(req, "start_time") /\ ValidDate(req, "end_time")
    THEN TotalAmount(Timestamp(req.check_in_date, req.start_time),
                     Timestamp(req.check_out_date, req.end_time),
                     price_per_hour)
    ELSE NaNAmount

\* the row written by INSERT INTO reservations ... 'PENDING'
NewReservation(tbl, spaceId, req) ==
    [ space_id       |-> spaceId,
      branch_id      |-> tbl[spaceId].branch_id,
      customer_id    |-> req.customer_id,
      check_in_date  |-> req.check_in_date,
      check_out_date |-> req.check_out_date,
      start_time     |-> req.start_time,
      end_time       |-> req.end_time,
      adults_count   |-> req.adults_count,
      status         |-> "PENDING",
      total_amount   |-> RequestTotal(req, tbl[spaceId].price_per_hour) ]

\* constraints of the reservations table that the INSERT can violate
InsertReservationFails(row) ==
    \/ row.customer_id \notin Customers          \* fk_reservations_customer
    \/ row.check_out_date < row.check_in_date    \* chk_reservations_dates
    \/ row.total_amount < 0                      \* chk_reservations_amount
    \/ row.adults_count <= 0                     \* chk_reservations_adults

\* the checks of the handler before its conflict query, in the order of the
\* code: the response of the first one that fails, NoResp when all pass
CreateValidation(tbl, spaceId, req) ==
    IF Missing(req, "customer_id") THEN Resp(400, "invalid_customer_id")
    ELSE IF Missing(req, "check_in_date") THEN Resp(400, "invalid_check_in_date")
    ELSE IF Missing(req, "check_out_date") THEN Resp(400, "invalid_check_out_date")
    ELSE IF Missing(req, "start_time") THEN Resp(400, "invalid_start_time")
    ELSE IF Missing(req, "end_time") THEN Resp(400, "invalid_end_time")
    ELSE IF Missing(req, "adults_count") THEN Resp(400, "invalid_adults_count")
    ELSE IF req.adults_count <= 0 THEN Resp(400, "invalid_adults_count")
    ELSE IF req.check_out_date < req.check_in_date THEN Resp(400, "checkout_before_checkin")
    ELSE IF ~ActiveSpace(tbl, spaceId) THEN Resp(404, "space_not_found_or_inactive")
    ELSE IF CapacityExceeded(req.adults_count, tbl[spaceId].capacity)
         THEN Resp(400, "capacity_exceeded")
    ELSE IF EndNotAfterStart(req) THEN Resp(400, "invalid_time_range")
    ELSE NoResp

\* the `details` member of the response body; only capacity_exceeded has one
NoDetails == [none |-> TRUE]

CreateDetails(tbl, spaceId, req) ==
    IF CreateValidation(tbl, spaceId, req) = Resp(400, "capacity_exceeded")
    THEN [capacity |-> tbl[spaceId].capacity, adults_count |-> req.adults_count]
    ELSE NoDetails

\* the INSERT and the response that follows it
CreateInsert(tbl, resv, spaceId, req) ==
    IF InsertReservationFails(NewReservation(tbl, spaceId, req))
    THEN [reservations |-> resv, resp |-> Resp(500, "internal_error")]
    ELSE [reservations |-> Append(resv, NewReservation(tbl, spaceId, req)),
          resp |-> Resp(201, "none")]

\* the whole handler run without interruption: the table after it and its response
CreateOutcome(tbl, resv, spaceId, req) ==
    IF CreateValidation(tbl, spaceId, req) # NoResp
    THEN [reservations |-> resv, resp |-> CreateValidation(tbl, spaceId, req)]
    ELSE IF ConflictRows(resv, spaceId, req) # {}
    THEN [reservations |-> resv, resp |-> Resp(409, "conflicting_reservation")]
    ELSE CreateInsert(tbl, resv, spaceId, req)

-----------------------------------------------------------------------------
(* cancelReservation *)

\* variant of the cancellation that also clears the amount due
CancelOutcomeZeroTotal(resv, rid) ==
    IF rid \notin DOMAIN resv
    THEN [reservations |-> resv, resp |-> Resp(404, "reservation_not_found")]
    ELSE [reservations |-> [resv EXCEPT ![rid].status = "CANCELLED",
                                        ![rid].total_amount = 0],
          resp |-> Resp(200, "none")]

\* variant of the cancellation that refuses a CONFIRMED reservation
CancelOutcomeUnlessConfirmed(resv, rid) ==
    IF rid \notin DOMAIN resv
    THEN [reservations |-> resv, resp |-> Resp(404, "reservation_not_found")]
    ELSE IF resv[rid].status = "CONFIRMED"
    THEN [reservations |-> resv, resp |-> Resp(409, "reservation_confirmed")]
    ELSE [reservations |-> [resv EXCEPT ![rid].status = "CANCELLED"],
          resp |-> Resp(200, "none")]

\* UPDATE reservations SET status = 'CANCELLED' WHERE id = $1
CancelOutcome(resv, rid) ==
    IF rid \notin DOMAIN resv
    THEN [reservations |-> resv, resp |-> Resp(404, "reservation_not_found")]
    ELSE [reservations |-> [resv EXCEPT ![rid].status = "CANCELLED"],
          resp |-> Resp(200, "none")]

-----------------------------------------------------------------------------
(* listReservationsBySpace *)

\* variant of the date filter that leaves out the check-out day
ListedExclusiveEnd(row, spaceId, query) ==
    /\ row.space_id = spaceId
    /\ \/ Missing(query, "date")
       \/ row.check_in_date <= query.date /\ query.date < row.check_out_date

\* WHERE space_id = $1 and, if (date), AND $2::date BETWEEN check_in_date AND
\* check_out_date; query.missing holds "date" when the parameter is absent or empty
Listed(row, spaceId, query) ==
    /\ row.space_id = spaceId
    /\ \/ Missing(query, "date")
       \/ row.check_in_date <= query.date /\ query.date <= row.check_out_date

\* ORDER BY check_in_date ASC, start_time ASC: row a may come before row b
MayPrecede(a, b) ==
    \/ a.check_in_date < b.check_in_date
    \/ a.check_in_date = b.check_in_date /\ a.start_time <= b.start_time

\* every order in which the database may return the rows numbered in ids: the
\* order of rows with equal sort keys is not determined
OrderedRows(resv, ids) ==
    { rows \in [1 .. Cardinality(ids) -> ids] :
        /\ \A i, j \in 1 .. Cardinality(ids) : i # j => rows[i] # rows[j]
        /\ \A i, j \in 1 .. Cardinality(ids) :
               i < j => MayPrecede(resv[rows[i]], resv[rows[j]]) }

\* the possible answers of the handler; rows holds the ids of the rows returned
ListOutcomes(tbl, resv, spaceId, query) ==
    IF spaceId \notin DOMAIN tbl
    THEN { [rows |-> << >>, resp |-> Resp(404, "space_not_found")] }
    ELSE { [rows |-> rows, resp |-> Resp(200, "none")] :
             rows \in OrderedRows(resv, { i \in DOMAIN resv : Listed(resv[i], spaceId, query) }) }

-----------------------------------------------------------------------------
(* payments *)

Methods == {"PIX", "CARD", "CASH", "BOLETO"}

PaymentIds(pays) == { i \in DOMAIN pays : pays[i] # Deleted }

RECURSIVE SumAmounts(_, _)
SumAmounts(pays, ids) ==
    IF ids = {} THEN 0
    ELSE LET i == CHOOSE x \in ids : TRUE
         IN pays[i].amount + SumAmounts(pays, ids \ {i})

\* variant of the committed sum that counts PAID payments only
CommittedSumPaidOnly(pays, rid) ==
    SumAmounts(pays, { i \in PaymentIds(pays) :
                         /\ pays[i].reservation_id = rid
                         /\ pays[i].status = "PAID" })

\* SELECT COALESCE(SUM(amount), 0) FROM payments
\* WHERE reservation_id = $1 AND status IN ('PENDING', 'PAID')
CommittedSum(pays, rid) ==
    SumAmounts(pays, { i \in PaymentIds(pays) :
                         /\ pays[i].reservation_id = rid
                         /\ pays[i].status \in {"PENDING", "PAID"} })

\* variant of the paid sum that counts every payment of the reservation
PaidSumAnyStatus(pays, rid) ==
    SumAmounts(pays, { i \in PaymentIds(pays) : pays[i].reservation_id = rid })

\* COALESCE(SUM(CASE WHEN p.status = 'PAID' THEN p.amount ELSE 0 END), 0)
PaidSum(pays, rid) ==
    SumAmounts(pays, { i \in PaymentIds(pays) :
                         /\ pays[i].reservation_id = rid
                         /\ pays[i].status = "PAID" })

\* variant of the remaining test that also refuses the exact remaining balance
ExceedsRemainingOrEqual(amount, totalAmount, committed) ==
    amount >= (totalAmount - committed) * UnitsPerCent

\* if (Number(amount) > remaining + 0.0001): amount in request units,
\* totalAmount and committed in cents
ExceedsRemaining(amount, totalAmount, committed) ==
    amount > (totalAmount - committed) * UnitsPerCent + Epsilon

\* the row written by INSERT INTO payments ... 'PENDING'
NewPayment(rid, req) ==
    [ reservation_id |-> rid,
      amount         |-> RoundToCents(req.amount),
      method         |-> req.method,
      status         |-> "PENDING",
      purpose        |-> "DEPOSIT",
      paid_at        |-> Null ]

\* constraints of the payments table that the INSERT can violate
InsertPaymentFails(resv, row) ==
    \/ row.reservation_id \notin DOMAIN resv     \* fk_payments_reservation
    \/ row.amount < 0                            \* chk_payments_amount
    \/ row.method \notin Methods                 \* chk_payments_method

\* the checks of registerPayment before it reads the ledger
RegisterValidation(resv, rid, req) ==
    IF Missing(req, "amount") THEN Resp(400, "invalid_amount")
    ELSE IF req.amount <= 0 THEN Resp(400, "invalid_amount")
    ELSE IF Missing(req, "method") THEN Resp(400, "invalid_method")
    ELSE IF rid \notin DOMAIN resv THEN Resp(404, "reservation_not_found")
    ELSE NoResp

RegisterInsert(resv, pays, rid, req) ==
    IF InsertPaymentFails(resv, NewPayment(rid, req))
    THEN [payments |-> pays, resp |-> Resp(500, "internal_error")]
    ELSE [payments |-> Append(pays, NewPayment(rid, req)), resp |-> Resp(201, "none")]

RegisterOutcome(resv, pays, rid, req) ==
    IF RegisterValidation(resv, rid, req) # NoResp
    THEN [payments |-> pays, resp |-> RegisterValidation(resv, rid, req)]
    ELSE IF ExceedsRemaining(req.amount, resv[rid].total_amount, CommittedSum(pays, rid))
    THEN [payments |-> pays, resp |-> Resp(400, "amount_exceeds_remaining")]
    ELSE RegisterInsert(resv, pays, rid, req)

\* the `remaining` member of the response body, in cents; only
\* amount_exceeds_remaining has one
RegisterDetails(resv, pays, rid, req) ==
    IF RegisterOutcome(resv, pays, rid, req).resp = Resp(400, "amount_exceeds_remaining")
    THEN [remaining |-> resv[rid].total_amount - CommittedSum(pays, rid)]
    ELSE NoDetails

\* variant of the reconciliation that asks for more than the total
RecomputedStatusStrict(status, totalAmount, paidSum) ==
    IF paidSum > totalAmount /\ totalAmount > 0 THEN "CONFIRMED" ELSE status

\* variant of the reconciliation without the test of a positive total
RecomputedStatusAnyTotal(status, totalAmount, paidSum) ==
    IF paidSum >= totalAmount THEN "CONFIRMED" ELSE status

\* variant of the reconciliation that derives the status both ways
RecomputedStatusDerived(status, totalAmount, paidSum) ==
    IF paidSum >= totalAmount /\ totalAmount > 0 THEN "CONFIRMED" ELSE "PENDING"

\* recomputeReservationStatus: the status of the reservation after it, given the
\* total and the paid sum it read
RecomputedStatus(status, totalAmount, paidSum) ==
    IF paidSum >= totalAmount /\ totalAmount > 0 THEN "CONFIRMED" ELSE status

recomputeReservationStatus(resv, pays, rid) ==
    IF rid \notin DOMAIN resv THEN resv
    ELSE [resv EXCEPT ![rid].status =
            RecomputedStatus(resv[rid].status, resv[rid].total_amount, PaidSum(pays, rid))]

\* UPDATE payments SET status = 'PAID', paid_at = COALESCE($2, NOW()) WHERE id = $1
MarkPaid(pays, pid) ==
    [pays EXCEPT ![pid].status = "PAID", ![pid].paid_at = "set"]

ConfirmOutcome(resv, pays, pid) ==
    IF pid \notin PaymentIds(pays)
    THEN [reservations |-> resv, payments |-> pays, resp |-> Resp(404, "payment_not_found")]
    ELSE [reservations |->
              recomputeReservationStatus(resv, MarkPaid(pays, pid), pays[pid].reservation_id),
          payments |-> MarkPaid(pays, pid),
          resp |-> Resp(200, "none")]

\* variant of the delete guard with the test inverted
DeleteRefusedPending(row) == row.status = "PENDING"

\* variant of the delete guard that refuses nothing
DeleteRefusedNever(row) == FALSE

\* if (lookup.rows[0].status === 'PAID') -> cannot_delete_paid_payment
DeleteRefused(row) == row.status = "PAID"

\* variant of the DELETE that removes every PENDING payment of the reservation
DeletePendingOfReservation(pays, pid) ==
    IF pid \in PaymentIds(pays)
    THEN [i \in DOMAIN pays |->
            IF /\ pays[i] # Deleted
               /\ pays[i].reservation_id = pays[pid].reservation_id
               /\ pays[i].status = "PENDING"
            THEN Deleted ELSE pays[i]]
    ELSE pays

\* DELETE FROM payments WHERE id = $1
DeletePayment(pays, pid) ==
    IF pid \in PaymentIds(pays) THEN [pays EXCEPT ![pid] = Deleted] ELSE pays

RemoveOutcome(pays, pid) ==
    IF pid \notin PaymentIds(pays)
    THEN [payments |-> pays, resp |-> Resp(404, "payment_not_found")]
    ELSE IF DeleteRefused(pays[pid])
    THEN [payments |-> pays, resp |-> Resp(400, "cannot_delete_paid_payment")]
    ELSE [payments |-> DeletePayment(pays, pid), resp |-> Resp(204, "none")]

-----------------------------------------------------------------------------
(* A database that stops answering.  Every handler runs in try { ... } catch    *)
(* (err) { return sendInternalError(...) }: when a pool.query rejects, the      *)
(* statement has no effect, the statements after it do not run, and the answer  *)
(* is 500 internal_error.  `served` is the number of queries of the request     *)
(* that the database still serves.                                              *)

Served == 0 .. 4   \* no handler issues more than four queries

InternalError == Resp(500, "internal_error")

\* the number of queries each handler issues when all of them are served
CreateQueries(tbl, resv, spaceId, req) ==
    IF CreateValidation(tbl, spaceId, req) = NoResp
    THEN (IF ConflictRows(resv, spaceId, req) # {} THEN 2 ELSE 3)
    ELSE IF CreateValidation(tbl, spaceId, req).error
              \in {"space_not_found_or_inactive", "capacity_exceeded", "invalid_time_range"}
    THEN 1
    ELSE 0

CancelQueries(resv, rid) == IF rid \in DOMAIN resv THEN 2 ELSE 1

RegisterQueries(resv, pays, rid, req) ==
    IF RegisterValidation(resv, rid, req) = NoResp
    THEN (IF ExceedsRemaining(req.amount, resv[rid].total_amount, CommittedSum(pays, rid))
          THEN 2 ELSE 3)
    ELSE IF RegisterValidation(resv, rid, req).code = 404 THEN 1
    ELSE 0

\* SELECT status, UPDATE payments, then the SELECT of recomputeReservationStatus
\* and, when the paid sum covers the total, its UPDATE
ConfirmQueries(resv, pays, pid) ==
    IF pid \notin PaymentIds(pays) THEN 1
    ELSE IF RecomputedStatus("PENDING",
                             resv[pays[pid].reservation_id].total_amount,
                             PaidSum(MarkPaid(pays, pid), pays[pid].reservation_id))
              = "CONFIRMED"
    THEN 4
    ELSE 3

RemoveQueries(pays, pid) ==
    IF pid \in PaymentIds(pays) /\ ~DeleteRefused(pays[pid]) THEN 2 ELSE 1

\* the handlers with a single write, which is their last query: a query that
\* rejects leaves the tables as they were
CreateOutcomeServed(tbl, resv, spaceId, req, served) ==
    IF CreateQueries(tbl, resv, spaceId, req) > served
    THEN [reservations |-> resv, resp |-> InternalError]
    ELSE CreateOutcome(tbl, resv, spaceId, req)

CancelOutcomeServed(resv, rid, served) ==
    IF CancelQueries(resv, rid) > served
    THEN [reservations |-> resv, resp |-> InternalError]
    ELSE CancelOutcome(resv, rid)

RegisterOutcomeServed(resv, pays, rid, req, served) ==
    IF RegisterQueries(resv, pays, rid, req) > served
    THEN [payments |-> pays, resp |-> InternalError]
    ELSE RegisterOutcome(resv, pays, rid, req)

RemoveOutcomeServed(pays, pid, served) ==
    IF RemoveQueries(pays, pid) > served
    THEN [payments |-> pays, resp |-> InternalError]
    ELSE RemoveOutcome(pays, pid)

\* confirmPayment writes with its second query and then calls
\* recomputeReservationStatus outside any transaction: when a query of the
\* reconciliation rejects, the payment is already PAID
ConfirmOutcomeServed(resv, pays, pid, served) ==
    IF ConfirmQueries(resv, pays, pid) <= served
    THEN ConfirmOutcome(resv, pays, pid)
    ELSE IF served >= 2
    THEN [reservations |-> resv, payments |-> MarkPaid(pays, pid), resp |-> InternalError]
    ELSE [reservations |-> resv, payments |-> pays, resp |-> InternalError]

-----------------------------------------------------------------------------
(* Requests *)

\* space ids in requests: S1, S2 (active), S3 (inactive), S4 (the id of no space)

\* req.unparsed names the time fields written in a form that Postgres reads as
\* the time given and that `new Date` does not read ("9:00" for 09:00)
CreateBody(customer, ci, co, st, et, adults, missing) ==
    [ customer_id |-> customer, check_in_date |-> ci, check_out_date |-> co,
      start_time |-> st, end_time |-> et, adults_count |-> adults, missing |-> missing,
      unparsed |-> {} ]

\* <<check_in_date, start_time, check_out_date, end_time>>: day 0 09:00-11:00,
\* day 0 11:00 - day 1 09:00 (starts when the first ends), day 0 09:00 - day 1 09:00
\* (overlaps both), then an empty span, end before start on one day, and
\* check-out before check-in
Spans ==
    { <<0, 540, 0, 660>>, <<0, 660, 1, 540>>, <<0, 540, 1, 540>>,
      <<0, 540, 0, 540>>, <<0, 660, 0, 540>>, <<1, 540, 0, 660>> }

\* complete bodies of an existing customer, one adult
FullBodies ==
    { CreateBody("c1", sp[1], sp[3], sp[2], sp[4], 1, {}) : sp \in Spans }

\* a booking of day 0 09:00-11:00 with one field absent, no adult, two adults
\* (more than the capacity of S1), or an unknown customer
OddBodies ==
    { CreateBody("c1", 0, 0, 540, 660, 1, {f}) :
        f \in {"customer_id", "check_in_date", "check_out_date",
               "start_time", "end_time", "adults_count"} }
    \cup { CreateBody("c1", 0, 0, 540, 660, 0, {}),
           CreateBody("c1", 0, 0, 540, 660, 2, {}),
           CreateBody("c9", 0, 0, 540, 660, 1, {}) }

\* requests to POST /spaces/:spaceId/reservations
CreateRequests ==
    { <<spaceId, body>> : spaceId \in {"S1", "S2"}, body \in FullBodies }
    \cup { <<"S1", body>> : body \in OddBodies }
    \cup { <<spaceId, CreateBody("c1", 0, 0, 540, 660, 1, {})>> : spaceId \in {"S3", "S4"} }

ReservationIds == 0 .. MaxReservations   \* 0 is the id of no reservation
PaymentIdInputs == 0 .. MaxPayments      \* 0 is the id of no payment

\* amounts in units of 0.0001: 0, 100, 100.0001 and 100.0002
Amounts == {0, 1000000, 1000001, 1000002}

PaymentBody(amount, method, missing) ==
    [amount |-> amount, method |-> method, missing |-> missing]

\* requests to POST /reservations/:reservationId/payments; for reservation 1
\* also a payment of 200.00 and bodies without amount, without method and with
\* a method outside the closed set
PaymentRequests ==
    { <<rid, PaymentBody(a, "PIX", {})>> : rid \in ReservationIds, a \in Amounts }
    \cup { <<1, body>> : body \in { PaymentBody(2000000, "CARD", {}),
                                    PaymentBody(1000000, "PIX", {"amount"}),
                                    PaymentBody(1000000, Null, {"method"}),
                                    PaymentBody(1000000, "CHEQUE", {}) } }

-----------------------------------------------------------------------------
(* The handlers, each run without interruption *)

Idle == [pc |-> "idle"]
ProcIds == {1, 2}
AllIdle == \A p \in ProcIds : procs[p] = Idle

SymIdle == [pc |-> "idle"]

Init ==
    /\ spaces = SpaceRows
    /\ reservations = << >>
    /\ payments = << >>
    /\ procs = [p \in ProcIds |-> Idle]
    /\ sym = SymIdle

\* a request that writes nothing leaves every table as it was: that is a
\* stuttering step, which the specifications allow at any time, so the steps of
\* the actions below are the requests that write
createReservation(spaceId, req) ==
    LET out == CreateOutcome(spaces, reservations, spaceId, req) IN
    /\ out.resp.code = 201 => Len(reservations) < MaxReservations
    /\ out.reservations # reservations
    /\ reservations' = out.reservations
    /\ UNCHANGED <<spaces, payments, procs, sym>>

cancelReservation(rid) ==
    LET out == CancelOutcome(reservations, rid) IN
    /\ out.reservations # reservations
    /\ reservations' = out.reservations
    /\ UNCHANGED <<spaces, payments, procs, sym>>

registerPayment(rid, req) ==
    LET out == RegisterOutcome(reservations, payments, rid, req) IN
    /\ out.resp.code = 201 => Len(payments) < MaxPayments
    /\ out.payments # payments
    /\ payments' = out.payments
    /\ UNCHANGED <<spaces, reservations, procs, sym>>

\* in the other handlers a query that rejects changes nothing; in confirmPayment
\* it can leave the payment PAID and the reservation not reconciled
confirmPayment(pid) ==
    \E served \in Served :
        LET out == ConfirmOutcomeServed(reservations, payments, pid, served) IN
        /\ out.payments # payments \/ out.reservations # reservations
        /\ reservations' = out.reservations
        /\ payments' = out.payments
        /\ UNCHANGED <<spaces, procs, sym>>

removePayment(pid) ==
    LET out == RemoveOutcome(payments, pid) IN
    /\ out.payments # payments
    /\ payments' = out.payments
    /\ UNCHANGED <<spaces, reservations, procs, sym>>

Next ==
    \/ \E rq \in CreateRequests : createReservation(rq[1], rq[2])
    \/ \E rid \in ReservationIds : cancelReservation(rid)
    \/ \E rq \in PaymentRequests : registerPayment(rq[1], rq[2])
    \/ \E pid \in PaymentIdInputs : confirmPayment(pid)
    \/ \E pid \in PaymentIdInputs : removePayment(pid)

Spec == Init /\ [][Next]_vars

-----------------------------------------------------------------------------
(* Bookings only, with more kinds of request: durations that are not whole     *)
(* hours and occupant counts below, at and above the capacity of the space     *)

\* day 1 09:00-09:40, after the end of every span of Spans that starts on day 0
FineSpans == Spans \cup { <<1, 540, 1, 580>> }

\* bookings of day 0 whose 09:00 is written "9:00": 09:00-11:00, 09:00-09:00
\* and 11:00-09:00
UnparsedBodies ==
    { [CreateBody("c1", 0, 0, 540, 660, 1, {}) EXCEPT !.unparsed = {"start_time"}],
      [CreateBody("c1", 0, 0, 540, 540, 1, {}) EXCEPT !.unparsed = {"start_time", "end_time"}],
      [CreateBody("c1", 0, 0, 660, 540, 1, {}) EXCEPT !.unparsed = {"end_time"}] }

FineCreateRequests ==
    { <<spaceId, CreateBody("c1", sp[1], sp[3], sp[2], sp[4], adults, {})>> :
        spaceId \in {"S1", "S5"}, sp \in FineSpans, adults \in 1 .. 3 }
    \cup { <<"S1", body>> : body \in UnparsedBodies }
    \cup { <<spaceId, body>> : spaceId \in {"S1", "S5"}, body \in OddBodies }
    \cup { <<spaceId, body>> : spaceId \in {"S2", "S3", "S4"}, body \in FullBodies }

NextCreate ==
    \/ \E rq \in FineCreateRequests : createReservation(rq[1], rq[2])
    \/ \E rid \in ReservationIds : cancelReservation(rid)

SpecCreate == Init /\ [][NextCreate]_vars

-----------------------------------------------------------------------------
(* Payments of bookings of two hours, with amounts below one cent *)

\* amounts in units of 0.0001: 0, 0.004 (stored as 0.00), 0.005 (stored as 0.01),
\* 100 and 200
FineAmounts == {0, 40, 50, 1000000, 2000000}

FinePaymentRequests ==
    { <<rid, PaymentBody(a, "PIX", {})>> : rid \in ReservationIds, a \in FineAmounts }
    \cup { <<1, body>> : body \in { PaymentBody(1000000, "PIX", {"amount"}),
                                    PaymentBody(1000000, Null, {"method"}) } }

NextPay ==
    \/ \E spaceId \in {"S1", "S2"} :
           createReservation(spaceId, CreateBody("c1", 0, 0, 540, 660, 1, {}))
    \/ \E rid \in ReservationIds : cancelReservation(rid)
    \/ \E rq \in FinePaymentRequests : registerPayment(rq[1], rq[2])
    \/ \E pid \in PaymentIdInputs : confirmPayment(pid)
    \/ \E pid \in PaymentIdInputs : removePayment(pid)

SpecPay == Init /\ [][NextPay]_vars

\* payments of 0.0001, of one cent and of 100.00: the first is within the
\* tolerance of a remaining balance of 0 and is stored as 0.00
FreeAmounts == {1, 100, 1000000}

FreePaymentRequests ==
    { <<rid, PaymentBody(a, "PIX", {})>> : rid \in ReservationIds, a \in FreeAmounts }

\* bookings of S1 (100.00 an hour) and of S2 (free of charge) and their payments
NextFree ==
    \/ \E spaceId \in {"S1", "S2"} :
           createReservation(spaceId, CreateBody("c1", 0, 0, 540, 660, 1, {}))
    \/ \E rid \in ReservationIds : cancelReservation(rid)
    \/ \E rq \in FreePaymentRequests : registerPayment(rq[1], rq[2])
    \/ \E pid \in PaymentIdInputs : confirmPayment(pid)
    \/ \E pid \in PaymentIdInputs : removePayment(pid)

SpecFree == Init /\ [][NextFree]_vars

-----------------------------------------------------------------------------
(* The handlers run by concurrent workers.  Every `await pool.query(...)` is  *)
(* one step; the statements between two queries run with the query before     *)
(* them.  After a prefix of uninterrupted requests each worker handles one     *)
(* request, its steps interleaved with those of the other worker.              *)

\* requests of the workers and of the prefix: bookings of S1 with positive duration
ConcCreateRequests ==
    { rq \in CreateRequests :
        rq[1] = "S1" /\ rq[2] \in FullBodies /\ CreateValidation(SpaceRows, rq[1], rq[2]) = NoResp }

\* a payment of 200.00 for reservation 1
ConcPaymentRequests == { <<1, PaymentBody(2000000, "PIX", {})>> }

PrefixStep ==
    /\ AllIdle
    /\ \/ \E rq \in ConcCreateRequests : createReservation(rq[1], rq[2])
       \/ \E rid \in ReservationIds \ {0} : cancelReservation(rid)
       \/ \E rid \in ReservationIds \ {0} :
              registerPayment(rid, PaymentBody(1000000, "PIX", {}))
       \/ \E pid \in PaymentIdInputs \ {0} : confirmPayment(pid)
       \/ \E pid \in PaymentIdInputs \ {0} : removePayment(pid)

Done(op, target, req, resp) ==
    [pc |-> "done", op |-> op, target |-> target, req |-> req, resp |-> resp]

At(pc, op, target, req, total) ==
    [pc |-> pc, op |-> op, target |-> target, req |-> req, total |-> total]

\* createReservation up to and including the query of the space
createReservationBegin(p, spaceId, req) ==
    /\ procs[p] = Idle
    /\ procs' = [procs EXCEPT ![p] =
           IF CreateValidation(spaces, spaceId, req) # NoResp
           THEN Done("createReservation", spaceId, req, CreateValidation(spaces, spaceId, req))
           ELSE At("conflictCheck", "createReservation", spaceId, req, 0)]
    /\ UNCHANGED <<spaces, reservations, payments, sym>>

\* const conflictCheck = await pool.query(conflictSql, conflictParams)
createReservationConflictCheck(p) ==
    /\ procs[p].pc = "conflictCheck"
    /\ procs' = [procs EXCEPT ![p] =
           IF ConflictRows(reservations, procs[p].target, procs[p].req) # {}
           THEN Done("createReservation", procs[p].target, procs[p].req,
                     Resp(409, "conflicting_reservation"))
           ELSE [procs[p] EXCEPT !.pc = "insertReservation"]]
    /\ UNCHANGED <<spaces, reservations, payments, sym>>

\* const { rows } = await pool.query(sql, params)
createReservationInsert(p) ==
    LET out == CreateInsert(spaces, reservations, procs[p].target, procs[p].req) IN
    /\ procs[p].pc = "insertReservation"
    /\ out.resp.code = 201 => Len(reservations) < MaxReservations
    /\ reservations' = out.reservations
    /\ procs' = [procs EXCEPT ![p] =
           Done("createReservation", procs[p].target, procs[p].req, out.resp)]
    /\ UNCHANGED <<spaces, payments, sym>>

\* registerPayment up to and including the query of the reservation's total
registerPaymentBegin(p, rid, req) ==
    /\ procs[p] = Idle
    /\ procs' = [procs EXCEPT ![p] =
           IF RegisterValidation(reservations, rid, req) # NoResp
           THEN Done("registerPayment", rid, req, RegisterValidation(reservations, rid, req))
           ELSE At("sumCommitted", "registerPayment", rid, req, reservations[rid].total_amount)]
    /\ UNCHANGED <<spaces, reservations, payments, sym>>

\* const sumRes = await pool.query(... SUM(amount) ... IN ('PENDING', 'PAID'))
registerPaymentSum(p) ==
    /\ procs[p].pc = "sumCommitted"
    /\ procs' = [procs EXCEPT ![p] =
           IF ExceedsRemaining(procs[p].req.amount, procs[p].total,
                               CommittedSum(payments, procs[p].target))
           THEN Done("registerPayment", procs[p].target, procs[p].req,
                     Resp(400, "amount_exceeds_remaining"))
           ELSE [procs[p] EXCEPT !.pc = "insertPayment"]]
    /\ UNCHANGED <<spaces, reservations, payments, sym>>

\* const { rows } = await pool.query<PaymentRow>(sql, params)
registerPaymentInsert(p) ==
    LET out == RegisterInsert(reservations, payments, procs[p].target, procs[p].req) IN
    /\ procs[p].pc = "insertPayment"
    /\ out.resp.code = 201 => Len(payments) < MaxPayments
    /\ payments' = out.payments
    /\ procs' = [procs EXCEPT ![p] =
           Done("registerPayment", procs[p].target, procs[p].req, out.resp)]
    /\ UNCHANGED <<spaces, reservations, sym>>

WorkerStep(p) ==
    \/ \E rq \in ConcCreateRequests : createReservationBegin(p, rq[1], rq[2])
    \/ createReservationConflictCheck(p)
    \/ createReservationInsert(p)
    \/ \E rq \in ConcPaymentRequests : registerPaymentBegin(p, rq[1], rq[2])
    \/ registerPaymentSum(p)
    \/ registerPaymentInsert(p)

NextConc == PrefixStep \/ \E p \in ProcIds : WorkerStep(p)

SpecConc == Init /\ [][NextConc]_vars

-----------------------------------------------------------------------------
(* confirmPayment and removePayment run by concurrent workers, one step per    *)
(* `await pool.query(...)`.  Each statement is committed on its own (the       *)
(* handlers open no transaction).  A query can reject, when the database       *)
(* stops answering or the process is killed: the handler then ends in its      *)
(* catch block and none of its remaining statements runs.                      *)

\* a booking of S1 of two hours (total 200.00) and payments of 100.00 and 200.00
WorkBody == CreateBody("c1", 0, 0, 540, 660, 1, {})

WorkPayments == { PaymentBody(a, "PIX", {}) : a \in {1000000, 2000000} }

WorkPrefixStep ==
    /\ AllIdle
    /\ \/ createReservation("S1", WorkBody)
       \/ \E rid \in ReservationIds \ {0} : cancelReservation(rid)
       \/ \E rid \in ReservationIds \ {0}, body \in WorkPayments : registerPayment(rid, body)
       \/ \E pid \in PaymentIdInputs \ {0} : confirmPayment(pid)

\* a handler between two of its queries: rid is the reservation_id it has read
Working(pc, op, pid, rid) == [pc |-> pc, op |-> op, target |-> pid, rid |-> rid]

Finished(op, pid, resp) == [pc |-> "done", op |-> op, target |-> pid, resp |-> resp]

\* const exists = await pool.query('SELECT status FROM payments WHERE id = $1')
confirmPaymentBegin(p, pid) ==
    /\ procs[p] = Idle
    /\ procs' = [procs EXCEPT ![p] =
           IF pid \notin PaymentIds(payments)
           THEN Finished("confirmPayment", pid, Resp(404, "payment_not_found"))
           ELSE Working("updatePayment", "confirmPayment", pid, 0)]
    /\ UNCHANGED <<spaces, reservations, payments, sym>>

\* const { rows } = await pool.query<PaymentRow>(sql, params): UPDATE payments
\* ... WHERE id = $1 RETURNING ...; when the row is gone rows[0] is undefined and
\* payment.reservation_id throws, which the catch block answers with 500
confirmPaymentUpdate(p) ==
    /\ procs[p].pc = "updatePayment"
    /\ IF procs[p].target \in PaymentIds(payments)
       THEN /\ payments' = MarkPaid(payments, procs[p].target)
            /\ procs' = [procs EXCEPT ![p] =
                   Working("sumPaid", "confirmPayment", procs[p].target,
                           payments[procs[p].target].reservation_id)]
       ELSE /\ payments' = payments
            /\ procs' = [procs EXCEPT ![p] =
                   Finished("confirmPayment", procs[p].target, InternalError)]
    /\ UNCHANGED <<spaces, reservations, sym>>

\* recomputeReservationStatus: const { rows } = await pool.query(sql, [reservationId])
\* and the test if (paidSum >= totalAmount && totalAmount > 0)
confirmPaymentSum(p) ==
    /\ procs[p].pc = "sumPaid"
    /\ procs' = [procs EXCEPT ![p] =
           IF RecomputedStatus("PENDING",
                               reservations[procs[p].rid].total_amount,
                               PaidSum(payments, procs[p].rid)) = "CONFIRMED"
           THEN [procs[p] EXCEPT !.pc = "updateReservation"]
           ELSE Finished("confirmPayment", procs[p].target, Resp(200, "none"))]
    /\ UNCHANGED <<spaces, reservations, payments, sym>>

\* recomputeReservationStatus: UPDATE reservations SET status = 'CONFIRMED' WHERE id = $1
confirmPaymentUpdateReservation(p) ==
    /\ procs[p].pc = "updateReservation"
    /\ reservations' = [reservations EXCEPT ![procs[p].rid].status = "CONFIRMED"]
    /\ procs' = [procs EXCEPT ![p] =
           Finished("confirmPayment", procs[p].target, Resp(200, "none"))]
    /\ UNCHANGED <<spaces, payments, sym>>

\* const lookup = await pool.query('SELECT status, reservation_id FROM payments ...')
removePaymentBegin(p, pid) ==
    /\ procs[p] = Idle
    /\ procs' = [procs EXCEPT ![p] =
           IF pid \notin PaymentIds(payments)
           THEN Finished("removePayment", pid, Resp(404, "payment_not_found"))
           ELSE IF DeleteRefused(payments[pid])
           THEN Finished("removePayment", pid, Resp(400, "cannot_delete_paid_payment"))
           ELSE Working("deletePayment", "removePayment", pid, payments[pid].reservation_id)]
    /\ UNCHANGED <<spaces, reservations, payments, sym>>

\* await pool.query('DELETE FROM payments WHERE id = $1', [paymentId])
removePaymentDelete(p) ==
    /\ procs[p].pc = "deletePayment"
    /\ payments' = DeletePayment(payments, procs[p].target)
    /\ procs' = [procs EXCEPT ![p] =
           Finished("removePayment", procs[p].target, Resp(204, "none"))]
    /\ UNCHANGED <<spaces, reservations, sym>>

\* the next query of the handler rejects: catch (err) { return sendInternalError(...) }
queryRejects(p) ==
    /\ procs[p].pc \in {"updatePayment", "sumPaid", "updateReservation", "deletePayment"}
    /\ procs' = [procs EXCEPT ![p] = Finished(procs[p].op, procs[p].target, InternalError)]
    /\ UNCHANGED <<spaces, reservations, payments, sym>>

\* the steps of a handler that has started
WorkContinue(p) ==
    \/ confirmPaymentUpdate(p)
    \/ confirmPaymentSum(p)
    \/ confirmPaymentUpdateReservation(p)
    \/ removePaymentDelete(p)
    \/ queryRejects(p)

WorkBegin(p) ==
    \/ \E pid \in PaymentIdInputs \ {0} : confirmPaymentBegin(p, pid)
    \/ \E pid \in PaymentIdInputs \ {0} : removePaymentBegin(p, pid)

NextWork == WorkPrefixStep \/ \E p \in ProcIds : (WorkBegin(p) \/ WorkContinue(p))

SpecWork == Init /\ [][NextWork]_vars

\* Node runs the continuation of every settled query: a handler that has
\* started takes its next step.  No request is ever obliged to arrive.
SpecWorkFair == SpecWork /\ \A p \in ProcIds : WF_vars(WorkContinue(p))

-----------------------------------------------------------------------------
(* Bookings and payments while the rate and the capacity of the space change   *)

\* the body of PATCH /spaces/:spaceId; req.missing names the members that are
\* undefined
SpaceBody(capacity, price_per_hour, active, missing) ==
    [capacity |-> capacity, price_per_hour |-> price_per_hour, active |-> active,
     missing |-> missing]

\* the SET list of the UPDATE: one assignment per member that is present
UpdatedSpace(row, req) ==
    [row EXCEPT
       !.capacity = IF Missing(req, "capacity") THEN @ ELSE req.capacity,
       !.price_per_hour = IF Missing(req, "price_per_hour") THEN @ ELSE req.price_per_hour,
       !.active = IF Missing(req, "active") THEN @ ELSE req.active]

\* updateSpace: name, description and cover_url are not part of the model, so a
\* body with none of capacity, price_per_hour and active has no valid field
UpdateSpaceOutcome(tbl, spaceId, req) ==
    IF spaceId \notin DOMAIN tbl
    THEN [spaces |-> tbl, resp |-> Resp(404, "space_not_found")]
    ELSE IF ~Missing(req, "capacity") /\ req.capacity <= 0
    THEN [spaces |-> tbl, resp |-> Resp(400, "invalid_capacity")]
    ELSE IF ~Missing(req, "price_per_hour") /\ req.price_per_hour < 0
    THEN [spaces |-> tbl, resp |-> Resp(400, "invalid_price_per_hour")]
    ELSE IF {"capacity", "price_per_hour", "active"} \subseteq req.missing
    THEN [spaces |-> tbl, resp |-> Resp(400, "no_valid_fields")]
    ELSE [spaces |-> [tbl EXCEPT ![spaceId] = UpdatedSpace(tbl[spaceId], req)],
          resp |-> Resp(200, "none")]

updateSpace(spaceId, req) ==
    LET out == UpdateSpaceOutcome(spaces, spaceId, req) IN
    /\ out.spaces # spaces
    /\ spaces' = out.spaces
    /\ UNCHANGED <<reservations, payments, procs, sym>>

\* a new rate of 125.50 or 100.00, a new capacity of 2 or 1, an invalid rate, an
\* invalid capacity and an empty body for S1, and a new rate for an unknown space
UpdateSpaceRequests ==
    { <<"S1", SpaceBody(1, p, TRUE, {"capacity", "active"})>> : p \in {12550, 10000, -1} }
    \cup { <<"S1", SpaceBody(c, 0, TRUE, {"price_per_hour", "active"})>> : c \in {2, 1, 0} }
    \cup { <<"S1", SpaceBody(1, 0, TRUE, {"capacity", "price_per_hour", "active"})>>,
           <<"S4", SpaceBody(1, 12550, TRUE, {"capacity", "active"})>> }

\* bookings of S1 of two hours for one or two adults, payments of 100.00
NextSpace ==
    \/ \E adults \in {1, 2} :
           createReservation("S1", CreateBody("c1", 0, 0, 540, 660, adults, {}))
    \/ \E rid \in ReservationIds : cancelReservation(rid)
    \/ \E rid \in ReservationIds : registerPayment(rid, PaymentBody(1000000, "PIX", {}))
    \/ \E pid \in PaymentIdInputs : confirmPayment(pid)
    \/ \E pid \in PaymentIdInputs : removePayment(pid)
    \/ \E rq \in UpdateSpaceRequests : updateSpace(rq[1], rq[2])

SpecSpace == Init /\ [][NextSpace]_vars

-----------------------------------------------------------------------------
(* createReservation on two fresh stores: booking A then requesting B, and     *)
(* booking B then requesting A                                                 *)

\* the response to `second` on a space whose only booking request so far was `first`
SecondResponse(spaceId, first, second) ==
    CreateOutcome(spaces,
                  CreateOutcome(spaces, << >>, spaceId, first).reservations,
                  spaceId, second).resp

SymPick(spaceId, a, b) ==
    /\ sym = SymIdle
    /\ sym' = [pc |-> "picked", space |-> spaceId, a |-> a, b |-> b,
               ab |-> NoResp, ba |-> NoResp]
    /\ UNCHANGED <<spaces, reservations, payments, procs>>

SymRunAB ==
    /\ sym.pc \in {"picked", "ranBA"}
    /\ sym' = [sym EXCEPT !.ab = SecondResponse(sym.space, sym.a, sym.b),
                          !.pc = IF sym.pc = "picked" THEN "ranAB" ELSE "done"]
    /\ UNCHANGED <<spaces, reservations, payments, procs>>

SymRunBA ==
    /\ sym.pc \in {"picked", "ranAB"}
    /\ sym' = [sym EXCEPT !.ba = SecondResponse(sym.space, sym.b, sym.a),
                          !.pc = IF sym.pc = "picked" THEN "ranBA" ELSE "done"]
    /\ UNCHANGED <<spaces, reservations, payments, procs>>

NextSym ==
    \/ \E spaceId \in {"S1", "S2"}, a \in FullBodies, b \in FullBodies : SymPick(spaceId, a, b)
    \/ SymRunAB
    \/ SymRunBA

SpecSym == Init /\ [][NextSym]_vars

-----------------------------------------------------------------------------
(* Properties.  They are stated with their own reading of the data model:     *)
(* the effective interval of a reservation and the sums of its payments.       *)

EffStart(r) == r.check_in_date * MinutesPerDay + r.start_time
EffEnd(r) == r.check_out_date * MinutesPerDay + r.end_time

\* half-open intervals [EffStart, EffEnd) that share an instant
Overlap(a, b) == EffStart(a) < EffEnd(b) /\ EffStart(b) < EffEnd(a)

\* an interval that ends exactly where the other starts
Touches(a, b) == EffEnd(a) = EffStart(b) \/ EffEnd(b) = EffStart(a)

LivePayments(rid, statuses) ==
    { i \in DOMAIN payments :
        /\ payments[i] # Deleted
        /\ payments[i].reservation_id = rid
        /\ payments[i].status \in statuses }

Committed(rid) == SumAmounts(payments, LivePayments(rid, {"PENDING", "PAID"}))
Paid(rid) == SumAmounts(payments, LivePayments(rid, {"PAID"}))

\* a request with all fields, an existing customer, an existing active space,
\* an occupant count within the capacity and a positive duration
ValidRequest(spaceId, body) ==
    /\ body.missing = {}
    /\ body.customer_id \in Customers
    /\ spaceId \in DOMAIN spaces
    /\ spaces[spaceId].active
    /\ body.adults_count >= 1
    /\ body.adults_count <= spaces[spaceId].capacity
    /\ body.check_out_date >= body.check_in_date
    /\ EffEnd(body) > EffStart(body)

ValidRequests == { rq \in CreateRequests : ValidRequest(rq[1], rq[2]) }

\* the reservations that a request on spaceId competes with
ActiveOn(spaceId) ==
    { i \in DOMAIN reservations :
        reservations[i].space_id = spaceId /\ reservations[i].status # "CANCELLED" }

\* C1: no two distinct reservations of one space that are both not CANCELLED
\* have overlapping effective intervals.
NoDoubleBooking ==
    \A i \in DOMAIN reservations, j \in DOMAIN reservations :
        ( /\ i # j
          /\ reservations[i].space_id = reservations[j].space_id
          /\ reservations[i].status # "CANCELLED"
          /\ reservations[j].status # "CANCELLED" )
        => ~Overlap(reservations[i], reservations[j])

\* C2: of two createReservation requests for one space with overlapping
\* intervals handled by concurrent workers, at most one is answered 201 and the
\* other is answered 409 conflicting_reservation.
AtMostOneConcurrentBooking ==
    \A p \in ProcIds, q \in ProcIds :
        ( /\ p # q
          /\ procs[p].pc = "done" /\ procs[p].op = "createReservation"
          /\ procs[q].pc = "done" /\ procs[q].op = "createReservation"
          /\ procs[p].target = procs[q].target
          /\ Overlap(procs[p].req, procs[q].req)
          /\ procs[p].resp.code = 201 )
        => procs[q].resp = Resp(409, "conflicting_reservation")

\* C3: for every reservation the amounts of its PENDING and PAID payments sum
\* to at most its total amount.
LedgerBound ==
    \A rid \in DOMAIN reservations : Committed(rid) <= reservations[rid].total_amount

LedgerBoundWitness ==
    \E rid \in DOMAIN reservations :
        /\ reservations[rid].total_amount > 0
        /\ Committed(rid) = reservations[rid].total_amount
        /\ Cardinality(LivePayments(rid, {"PENDING", "PAID"})) = 2

\* C4: while two workers run registerPayment for the same reservation, in every
\* interleaving of their reads and inserts, the PENDING and PAID amounts of that
\* reservation sum to at most its total amount.
ConcurrentLedgerBound ==
    \A p \in ProcIds, q \in ProcIds :
        ( /\ p # q
          /\ procs[p] # Idle /\ procs[p].op = "registerPayment"
          /\ procs[q] # Idle /\ procs[q].op = "registerPayment"
          /\ procs[p].target = procs[q].target
          /\ procs[p].target \in DOMAIN reservations )
        => Committed(procs[p].target) <= reservations[procs[p].target].total_amount

\* C5: a reservation whose status is CANCELLED keeps that status in every step.
CancelledIsTerminal ==
    [][\A rid \in DOMAIN reservations :
           reservations[rid].status = "CANCELLED"
           => reservations'[rid].status = "CANCELLED"]_vars

\* C6: a CONFIRMED reservation moves to no status other than CANCELLED, and no
\* reservation that has left PENDING (CONFIRMED or CANCELLED) returns to PENDING;
\* so once CONFIRMED a reservation is never PENDING again.
ConfirmedNeverPending ==
    [][\A rid \in DOMAIN reservations :
           /\ rid \in DOMAIN reservations'
           /\ reservations[rid].status = "CONFIRMED"
              => reservations'[rid].status \in {"CONFIRMED", "CANCELLED"}
           /\ reservations[rid].status # "PENDING"
              => reservations'[rid].status # "PENDING"]_vars

\* a reservation whose paid sum covers its total, cancelled after it was confirmed
ConfirmedNeverPendingWitness ==
    \E rid \in DOMAIN reservations :
        /\ reservations[rid].status = "CANCELLED"
        /\ reservations[rid].total_amount > 0
        /\ Paid(rid) >= reservations[rid].total_amount

\* C7: a CONFIRMED reservation has a total amount > 0 and PAID payments whose
\* amounts sum to at least that total.
ConfirmedIsPaid ==
    \A rid \in DOMAIN reservations :
        reservations[rid].status = "CONFIRMED"
        => /\ reservations[rid].total_amount > 0
           /\ Paid(rid) >= reservations[rid].total_amount

ConfirmedIsPaidWitness ==
    \E rid \in DOMAIN reservations :
        /\ reservations[rid].status = "CONFIRMED"
        /\ Cardinality(LivePayments(rid, {"PAID"})) = 2

\* C8: a valid createReservation request is answered 409 conflicting_reservation
\* exactly when a reservation of the same space that is not CANCELLED has an
\* effective interval [s', e') with s' < e and s < e'; it then writes nothing;
\* otherwise it is answered 201 and adds one PENDING reservation of that space
\* with the requested interval.
ConflictIffOverlap ==
    \A rq \in ValidRequests :
        LET out == CreateOutcome(spaces, reservations, rq[1], rq[2]) IN
        IF \E i \in ActiveOn(rq[1]) : Overlap(reservations[i], rq[2])
        THEN /\ out.resp = Resp(409, "conflicting_reservation")
             /\ out.reservations = reservations
        ELSE /\ out.resp.code = 201
             /\ Len(out.reservations) = Len(reservations) + 1
             /\ SubSeq(out.reservations, 1, Len(reservations)) = reservations
             /\ LET new == out.reservations[Len(out.reservations)] IN
                  /\ new.space_id = rq[1]
                  /\ new.status = "PENDING"
                  /\ EffStart(new) = EffStart(rq[2])
                  /\ EffEnd(new) = EffEnd(rq[2])

\* two bookings of one space were both accepted, and in this state one valid
\* request is refused as a conflict and another valid request is accepted
ConflictIffOverlapWitness ==
    /\ Len(reservations) = 2
    /\ reservations[1].space_id = reservations[2].space_id
    /\ reservations[1].status # "CANCELLED"
    /\ reservations[2].status # "CANCELLED"
    /\ \E rq \in ValidRequests :
           CreateOutcome(spaces, reservations, rq[1], rq[2]).resp.code = 409
    /\ \E rq \in ValidRequests :
           CreateOutcome(spaces, reservations, rq[1], rq[2]).resp.code = 201

\* C9: a valid request whose interval starts exactly where a live reservation of
\* the space ends, or ends exactly where one starts, and overlaps none of them,
\* is not refused: it is answered 201.
BackToBackAccepted ==
    \A rq \in ValidRequests :
        ( /\ \E i \in ActiveOn(rq[1]) : Touches(reservations[i], rq[2])
          /\ \A i \in ActiveOn(rq[1]) :
                 \/ EffEnd(reservations[i]) <= EffStart(rq[2])
                 \/ EffEnd(rq[2]) <= EffStart(reservations[i]) )
        => CreateOutcome(spaces, reservations, rq[1], rq[2]).resp.code = 201

\* two live reservations of one space, the second starting (or ending) exactly
\* where the first ends (or starts)
BackToBackWitness ==
    \E i \in DOMAIN reservations, j \in DOMAIN reservations :
        /\ i < j
        /\ reservations[i].space_id = reservations[j].space_id
        /\ reservations[i].status # "CANCELLED"
        /\ reservations[j].status # "CANCELLED"
        /\ Touches(reservations[i], reservations[j])

\* C10: for two intervals A and B of positive duration on one empty space,
\* booking A and then requesting B is refused as a conflict exactly when booking
\* B and then requesting A is.
ConflictSymmetric ==
    ( /\ sym.pc = "done"
      /\ ValidRequest(sym.space, sym.a)
      /\ ValidRequest(sym.space, sym.b) )
    => ( sym.ab = Resp(409, "conflicting_reservation")
         <=> sym.ba = Resp(409, "conflicting_reservation") )

ConflictSymmetricWitness ==
    /\ sym.pc = "done"
    /\ ValidRequest(sym.space, sym.a)
    /\ ValidRequest(sym.space, sym.b)
    /\ sym.a # sym.b
    /\ sym.ab = Resp(409, "conflicting_reservation")
    /\ sym.ba = Resp(409, "conflicting_reservation")

\* the request that asks for the space and the interval of reservation r again
SameInterval(r) ==
    CreateBody("c1", r.check_in_date, r.check_out_date, r.start_time, r.end_time, 1, {})

\* C11: the conflict check counts only the non-cancelled reservations of the
\* requested space.  A valid request that overlaps only reservations of other
\* spaces is answered 201.  Right after cancelReservation(R) the row of R is
\* still stored, unchanged but for its status CANCELLED, and a request for R's
\* space with exactly R's interval is answered 201 and adds a row, unless another
\* non-cancelled reservation of that space overlaps it.
CancelledFreesInterval ==
    /\ \A rq \in ValidRequests :
           ( \A i \in DOMAIN reservations :
                 ( reservations[i].status # "CANCELLED"
                   /\ Overlap(reservations[i], rq[2]) )
                 => reservations[i].space_id # rq[1] )
           => CreateOutcome(spaces, reservations, rq[1], rq[2]).resp.code = 201
    /\ \A i \in DOMAIN reservations :
           LET R == reservations[i]
               cancelled == CancelOutcome(reservations, i)
               again == CreateOutcome(spaces, cancelled.reservations,
                                      R.space_id, SameInterval(R))
           IN /\ cancelled.resp.code = 200
              /\ cancelled.reservations = [reservations EXCEPT ![i].status = "CANCELLED"]
              /\ ( \A j \in ActiveOn(R.space_id) \ {i} : ~Overlap(reservations[j], R) )
                 => /\ again.resp.code = 201
                    /\ Len(again.reservations) = Len(reservations) + 1
                    /\ again.reservations[i] = [R EXCEPT !.status = "CANCELLED"]

\* reservation 1 was cancelled and its interval on its space was booked again,
\* while another request in this state overlaps only a reservation of another space
CancelledFreesIntervalWitness ==
    /\ Len(reservations) = 2
    /\ reservations[1].status = "CANCELLED"
    /\ reservations[2].status # "CANCELLED"
    /\ reservations[2].space_id = reservations[1].space_id
    /\ EffStart(reservations[2]) = EffStart(reservations[1])
    /\ EffEnd(reservations[2]) = EffEnd(reservations[1])
    /\ \E rq \in ValidRequests :
           /\ rq[1] # reservations[2].space_id
           /\ Overlap(reservations[2], rq[2])

\* the rate of the space of a request, and the duration it asks for in minutes
Rate(spaceId) == spaces[spaceId].price_per_hour
Minutes(r) == EffEnd(r) - EffStart(r)

\* the distance between a and b
Distance(a, b) == IF a >= b THEN a - b ELSE b - a

\* C12: every step that adds a reservation (a createReservation answered 201)
\* adds exactly one, PENDING, whose total amount is its duration in hours times
\* the hourly rate of its space, to the cent (the column keeps two decimals).
TotalIsDurationTimesRate ==
    [][Len(reservations') > Len(reservations)
       => /\ Len(reservations') = Len(reservations) + 1
          /\ SubSeq(reservations', 1, Len(reservations)) = reservations
          /\ LET new == reservations'[Len(reservations')] IN
               /\ new.status = "PENDING"
               /\ 2 * Distance(new.total_amount * MinutesPerHour,
                               Minutes(new) * Rate(new.space_id))
                    <= MinutesPerHour]_vars

\* a request that passes every check made before the space is read
PassesFieldChecks(body) ==
    /\ body.missing = {}
    /\ body.adults_count >= 1
    /\ body.check_out_date >= body.check_in_date

\* C13: a request for an existing active space that passes the field checks
\* and asks for more occupants than the capacity of the space is answered 400
\* capacity_exceeded with details naming that capacity and the requested count,
\* and writes nothing; every stored reservation has an occupant count of at
\* most the capacity of its space.
CapacityRespected ==
    /\ \A rq \in FineCreateRequests :
           ( /\ PassesFieldChecks(rq[2])
             /\ rq[1] \in DOMAIN spaces
             /\ spaces[rq[1]].active
             /\ rq[2].adults_count > spaces[rq[1]].capacity )
           => /\ CreateOutcome(spaces, reservations, rq[1], rq[2]).resp
                   = Resp(400, "capacity_exceeded")
              /\ CreateDetails(spaces, rq[1], rq[2])
                   = [capacity |-> spaces[rq[1]].capacity,
                      adults_count |-> rq[2].adults_count]
              /\ CreateOutcome(spaces, reservations, rq[1], rq[2]).reservations
                   = reservations
    /\ \A i \in DOMAIN reservations :
           reservations[i].adults_count <= spaces[reservations[i].space_id].capacity

\* a space booked once with fewer occupants than its capacity and once with
\* exactly its capacity, while a request for one more occupant is refused
CapacityRespectedWitness ==
    \E i \in DOMAIN reservations, j \in DOMAIN reservations :
        /\ reservations[i].space_id = reservations[j].space_id
        /\ reservations[i].adults_count < spaces[reservations[i].space_id].capacity
        /\ reservations[j].adults_count = spaces[reservations[j].space_id].capacity
        /\ \E rq \in FineCreateRequests :
               /\ rq[1] = reservations[i].space_id
               /\ rq[2].adults_count = reservations[j].adults_count + 1
               /\ CreateOutcome(spaces, reservations, rq[1], rq[2]).resp
                    = Resp(400, "capacity_exceeded")

\* C14: no step adds a reservation whose check_out_date is before its
\* check_in_date or whose effective end is not after its effective start (such a
\* request is refused and writes nothing), so every stored reservation has a
\* strictly positive duration.
PositiveDuration ==
    [][ /\ Len(reservations') > Len(reservations)
           => LET new == reservations'[Len(reservations')] IN
                /\ new.check_out_date >= new.check_in_date
                /\ EffEnd(new) > EffStart(new)
        /\ \A i \in DOMAIN reservations' :
               EffEnd(reservations'[i]) > EffStart(reservations'[i]) ]_vars

\* C15: a request that passes the field checks and names a space that does not
\* exist or is not active is answered 404 space_not_found_or_inactive and writes
\* nothing; every stored reservation is on an existing active space.
InactiveSpaceRefused ==
    /\ \A rq \in FineCreateRequests :
           ( /\ PassesFieldChecks(rq[2])
             /\ (rq[1] \notin DOMAIN spaces \/ ~spaces[rq[1]].active) )
           => /\ CreateOutcome(spaces, reservations, rq[1], rq[2]).resp
                   = Resp(404, "space_not_found_or_inactive")
              /\ CreateOutcome(spaces, reservations, rq[1], rq[2]).reservations
                   = reservations
    /\ \A i \in DOMAIN reservations :
           /\ reservations[i].space_id \in DOMAIN spaces
           /\ spaces[reservations[i].space_id].active

\* with bookings stored, a request for the inactive space and one for a space
\* that does not exist are refused, while the same body is accepted or refused
\* as a conflict on an active space
InactiveSpaceRefusedWitness ==
    /\ Len(reservations) = 2
    /\ \E rq \in FineCreateRequests, other \in FineCreateRequests :
           /\ rq[1] \in DOMAIN spaces
           /\ ~spaces[rq[1]].active
           /\ other[1] \notin DOMAIN spaces
           /\ ValidRequest("S2", rq[2])
           /\ ValidRequest("S2", other[2])
           /\ CreateOutcome(spaces, reservations, rq[1], rq[2]).resp.code = 404
           /\ CreateOutcome(spaces, reservations, other[1], other[2]).resp.code = 404
           /\ CreateOutcome(spaces, reservations, "S2", rq[2]).resp.code \in {201, 409}

\* C16: a request that is valid but for its customer id, which is the id of no
\* customer, is refused with the business error customer_not_found, not with an
\* internal error, and writes nothing.
UnknownCustomerReported ==
    \A rq \in FineCreateRequests :
        ( /\ rq[2].customer_id \notin Customers
          /\ ValidRequest(rq[1], [rq[2] EXCEPT !.customer_id = "c1"])
          /\ \A i \in ActiveOn(rq[1]) : ~Overlap(reservations[i], rq[2]) )
        => LET out == CreateOutcome(spaces, reservations, rq[1], rq[2]) IN
             /\ out.resp.error = "customer_not_found"
             /\ out.resp.code # 500
             /\ out.reservations = reservations

\* C17: a createReservation, cancelReservation, registerPayment, confirmPayment
\* or removePayment call that is answered with an error (any 4xx or 500) leaves
\* the reservations and the payments exactly as they were.
RejectedLeavesStateUnchanged ==
    \A served \in Served :
        /\ \A rq \in CreateRequests :
               LET out == CreateOutcomeServed(spaces, reservations, rq[1], rq[2], served)
               IN out.resp.code >= 400 => out.reservations = reservations
        /\ \A rid \in ReservationIds :
               LET out == CancelOutcomeServed(reservations, rid, served)
               IN out.resp.code >= 400 => out.reservations = reservations
        /\ \A rq \in PaymentRequests :
               LET out == RegisterOutcomeServed(reservations, payments, rq[1], rq[2], served)
               IN out.resp.code >= 400 => out.payments = payments
        /\ \A pid \in PaymentIdInputs :
               LET out == RemoveOutcomeServed(payments, pid, served)
               IN out.resp.code >= 400 => out.payments = payments
        /\ \A pid \in PaymentIdInputs :
               LET out == ConfirmOutcomeServed(reservations, payments, pid, served)
               IN out.resp.code >= 400
                  => out.reservations = reservations /\ out.payments = payments

\* a registerPayment request with an amount > 0, a method of the closed set and
\* the id of a stored reservation
WellFormedPayment(rq) ==
    /\ rq[2].missing = {}
    /\ rq[2].amount > 0
    /\ rq[2].method \in {"PIX", "CARD", "CASH", "BOLETO"}
    /\ rq[1] \in DOMAIN reservations

\* total amount minus the PENDING and PAID amounts, in cents
Remaining(rid) == reservations[rid].total_amount - Committed(rid)

\* C18: a well-formed registerPayment whose amount is more than 0.0001 above the
\* remaining balance of the reservation is answered 400 amount_exceeds_remaining
\* with that remaining balance in the body and adds no payment; one whose amount
\* equals the remaining balance is answered 201 and adds one PENDING payment of
\* that amount.
OverRemainingRefused ==
    \A rq \in PaymentRequests :
        WellFormedPayment(rq)
        => LET out == RegisterOutcome(reservations, payments, rq[1], rq[2]) IN
             /\ rq[2].amount > Remaining(rq[1]) * UnitsPerCent + Epsilon
                => /\ out.resp = Resp(400, "amount_exceeds_remaining")
                   /\ RegisterDetails(reservations, payments, rq[1], rq[2])
                        = [remaining |-> Remaining(rq[1])]
                   /\ out.payments = payments
             /\ rq[2].amount = Remaining(rq[1]) * UnitsPerCent
                => /\ out.resp.code = 201
                   /\ Len(out.payments) = Len(payments) + 1
                   /\ SubSeq(out.payments, 1, Len(payments)) = payments
                   /\ out.payments[Len(out.payments)].reservation_id = rq[1]
                   /\ out.payments[Len(out.payments)].amount = Remaining(rq[1])
                   /\ out.payments[Len(out.payments)].status = "PENDING"

\* a reservation whose second payment was exactly the balance the first one
\* left, so that nothing remains and a further payment is refused
OverRemainingRefusedWitness ==
    /\ Len(payments) = 2
    /\ payments[1] # Deleted
    /\ payments[2] # Deleted
    /\ payments[1].reservation_id = payments[2].reservation_id
    /\ payments[2].amount
         = reservations[payments[2].reservation_id].total_amount - payments[1].amount
    /\ Remaining(payments[2].reservation_id) = 0
    /\ \E rq \in PaymentRequests :
           /\ rq[1] = payments[2].reservation_id
           /\ WellFormedPayment(rq)
           /\ RegisterOutcome(reservations, payments, rq[1], rq[2]).resp
                = Resp(400, "amount_exceeds_remaining")

\* C19: a registerPayment request with an amount <= 0 is answered 400
\* invalid_amount, and a well-formed body for the id of no reservation is
\* answered 404 reservation_not_found, neither adding a payment; every step that
\* adds a payment adds exactly one, PENDING, with an amount > 0 and no paid-at
\* timestamp, for a stored reservation.
AcceptedPaymentIsPositive ==
    [][ /\ \A rq \in FinePaymentRequests :
               LET out == RegisterOutcome(reservations, payments, rq[1], rq[2]) IN
               /\ ("amount" \notin rq[2].missing /\ rq[2].amount <= 0)
                  => out.resp = Resp(400, "invalid_amount") /\ out.payments = payments
               /\ ( /\ rq[2].missing = {}
                    /\ rq[2].amount > 0
                    /\ rq[1] \notin DOMAIN reservations )
                  => /\ out.resp = Resp(404, "reservation_not_found")
                     /\ out.payments = payments
        /\ Len(payments') > Len(payments)
           => /\ Len(payments') = Len(payments) + 1
              /\ SubSeq(payments', 1, Len(payments)) = payments
              /\ LET new == payments'[Len(payments')] IN
                   /\ new.status = "PENDING"
                   /\ new.amount > 0
                   /\ new.paid_at = Null
                   /\ new.reservation_id \in DOMAIN reservations ]_vars

\* the PAID amounts of the reservation of payment pid once pid is PAID
PaidWith(pid) ==
    Paid(payments[pid].reservation_id)
      + (IF payments[pid].status = "PAID" THEN 0 ELSE payments[pid].amount)

\* C20: a confirmPayment answered 200 for payment P of reservation R leaves P
\* PAID with its paid-at set and every other payment as it was; R is CONFIRMED
\* when its PAID amounts then sum to at least its total and the total is > 0,
\* and keeps its status otherwise; no other reservation changes.  (The answer
\* is 200 only when every query was served, and the outcome is then that of
\* ConfirmOutcome.)
ConfirmReconciles ==
    \A pid \in DOMAIN payments :
        LET out == ConfirmOutcome(reservations, payments, pid) IN
        (payments[pid] # Deleted /\ out.resp.code = 200)
        => LET R == payments[pid].reservation_id IN
             /\ out.payments[pid].status = "PAID"
             /\ out.payments[pid].paid_at # Null
             /\ out.payments[pid].amount = payments[pid].amount
             /\ \A q \in DOMAIN payments \ {pid} : out.payments[q] = payments[q]
             /\ out.reservations[R].status
                  = IF PaidWith(pid) >= reservations[R].total_amount
                       /\ reservations[R].total_amount > 0
                    THEN "CONFIRMED"
                    ELSE reservations[R].status
             /\ \A r \in DOMAIN reservations \ {R} : out.reservations[r] = reservations[r]
             /\ Len(out.reservations) = Len(reservations)

\* one reservation CONFIRMED by a PAID payment of exactly its total, and another
\* still PENDING with a PAID payment of a part of its total
ConfirmReconcilesWitness ==
    \E p \in DOMAIN payments, q \in DOMAIN payments :
        /\ payments[p] # Deleted /\ payments[q] # Deleted
        /\ payments[p].status = "PAID" /\ payments[q].status = "PAID"
        /\ payments[p].reservation_id # payments[q].reservation_id
        /\ reservations[payments[p].reservation_id].status = "CONFIRMED"
        /\ payments[p].amount = reservations[payments[p].reservation_id].total_amount
        /\ reservations[payments[q].reservation_id].status = "PENDING"
        /\ payments[q].amount > 0
        /\ payments[q].amount < reservations[payments[q].reservation_id].total_amount

\* a reservation that is still PENDING although its PAID payments cover its
\* positive total
PaidInFullPending(rid) ==
    /\ rid \in DOMAIN reservations
    /\ reservations[rid].status = "PENDING"
    /\ reservations[rid].total_amount > 0
    /\ Paid(rid) >= reservations[rid].total_amount

\* C21: the payment update and the reconciliation of confirmPayment take effect
\* together: whenever the PAID payments of a PENDING reservation cover its
\* positive total, also after a handler failed between its two writes, the
\* reservation is eventually CONFIRMED or CANCELLED.
PaidLeadsToConfirmed ==
    \A rid \in ReservationIds \ {0} :
        PaidInFullPending(rid)
          ~> (rid \in DOMAIN reservations
              /\ reservations[rid].status \in {"CONFIRMED", "CANCELLED"})

\* C22: confirmPayment on a payment that is already PAID leaves it PAID and
\* leaves the status of every reservation and the amount of every payment as
\* they were, whatever was done since the payment became PAID.
ReconfirmChangesNothing ==
    \A pid \in DOMAIN payments, served \in Served :
        (payments[pid] # Deleted /\ payments[pid].status = "PAID")
        => LET out == ConfirmOutcomeServed(reservations, payments, pid, served) IN
             /\ out.payments[pid] # Deleted
             /\ out.payments[pid].status = "PAID"
             /\ \A q \in DOMAIN payments :
                    payments[q] # Deleted
                    => out.payments[q] # Deleted /\ out.payments[q].amount = payments[q].amount
             /\ \A r \in DOMAIN reservations :
                    out.reservations[r].status = reservations[r].status

\* ids that name no stored payment
UnknownPaymentIds == { pid \in PaymentIdInputs : pid \notin DOMAIN payments \/ payments[pid] = Deleted }

\* C23: removePayment of a PAID payment is answered 400
\* cannot_delete_paid_payment and of an unknown id 404 payment_not_found, both
\* leaving every payment as it was; and no step of the handlers, each run
\* without interruption, takes a payment out of the PAID payments of its
\* reservation.
PaidPaymentsStay ==
    /\ [](\A pid \in DOMAIN payments :
             (payments[pid] # Deleted /\ payments[pid].status = "PAID")
             => /\ RemoveOutcome(payments, pid).resp = Resp(400, "cannot_delete_paid_payment")
                /\ RemoveOutcome(payments, pid).payments = payments)
    /\ [](\A pid \in UnknownPaymentIds :
             /\ RemoveOutcome(payments, pid).resp = Resp(404, "payment_not_found")
             /\ RemoveOutcome(payments, pid).payments = payments)
    /\ [][\A pid \in DOMAIN payments :
             (payments[pid] # Deleted /\ payments[pid].status = "PAID")
             => /\ payments'[pid] # Deleted
                /\ payments'[pid].status = "PAID"
                /\ payments'[pid].reservation_id = payments[pid].reservation_id]_vars

\* one payment is PAID and another has been deleted
PaidPaymentsStayWitness ==
    \E p \in DOMAIN payments, q \in DOMAIN payments :
        /\ payments[p] # Deleted
        /\ payments[p].status = "PAID"
        /\ payments[q] = Deleted

\* C24: with removePayment and confirmPayment interleaved step by step, no step
\* deletes a payment whose status is PAID.
PaidNeverDeleted ==
    [][\A pid \in DOMAIN payments :
           (payments[pid] # Deleted /\ payments[pid].status = "PAID")
           => payments'[pid] # Deleted]_vars

\* the remaining balance of reservation rid in the given tables
RemainingIn(resv, pays, rid) ==
    resv[rid].total_amount
      - SumAmounts(pays, { i \in DOMAIN pays :
                             /\ pays[i] # Deleted
                             /\ pays[i].reservation_id = rid
                             /\ pays[i].status \in {"PENDING", "PAID"} })

\* C25: removePayment of a PENDING payment of amount a is answered 204 and
\* deletes that payment and no other; the step that deletes it raises the
\* remaining balance of its reservation by a and changes no reservation.
RemoveFreesBalance ==
    /\ [](\A pid \in DOMAIN payments :
             (payments[pid] # Deleted /\ payments[pid].status = "PENDING")
             => LET out == RemoveOutcome(payments, pid) IN
                  /\ out.resp.code = 204
                  /\ out.payments[pid] = Deleted
                  /\ \A q \in DOMAIN payments \ {pid} : out.payments[q] = payments[q])
    /\ [][\A pid \in DOMAIN payments :
             (payments[pid] # Deleted /\ payments'[pid] = Deleted)
             => /\ RemainingIn(reservations', payments', payments[pid].reservation_id)
                     = Remaining(payments[pid].reservation_id) + payments[pid].amount
                /\ \A q \in DOMAIN payments \ {pid} : payments'[q] = payments[q]
                /\ reservations' = reservations]_vars

\* a payment was deleted while another payment of 100.00 is still PENDING and
\* the reservation it belongs to is PENDING with 100.00 remaining
RemoveFreesBalanceWitness ==
    \E p \in DOMAIN payments, q \in DOMAIN payments :
        /\ payments[p] = Deleted
        /\ payments[q] # Deleted
        /\ payments[q].status = "PENDING"
        /\ reservations[payments[q].reservation_id].status = "PENDING"
        /\ Remaining(payments[q].reservation_id) = payments[q].amount
        /\ payments[q].amount > 0

\* C26: cancelReservation of an existing reservation is answered 200 and sets
\* its status to CANCELLED whatever its status and payments were, leaving its
\* other fields and every other reservation as they were; of an unknown id it is
\* answered 404 reservation_not_found and changes nothing; and the step that
\* cancels a reservation changes no payment.
CancelChangesStatusOnly ==
    /\ [](\A rid \in DOMAIN reservations :
             LET out == CancelOutcome(reservations, rid) IN
             /\ out.resp.code = 200
             /\ out.reservations[rid] = [reservations[rid] EXCEPT !.status = "CANCELLED"]
             /\ DOMAIN out.reservations = DOMAIN reservations
             /\ \A r \in DOMAIN reservations \ {rid} : out.reservations[r] = reservations[r])
    /\ [](\A rid \in ReservationIds \ DOMAIN reservations :
             /\ CancelOutcome(reservations, rid).resp = Resp(404, "reservation_not_found")
             /\ CancelOutcome(reservations, rid).reservations = reservations)
    /\ [][\A rid \in DOMAIN reservations :
             (reservations[rid].status # "CANCELLED" /\ reservations'[rid].status = "CANCELLED")
             => /\ payments' = payments
                /\ spaces' = spaces
                /\ reservations' = [reservations EXCEPT ![rid].status = "CANCELLED"]]_vars

\* a CANCELLED reservation that keeps a PAID payment covering its total, next
\* to a reservation that is not CANCELLED
CancelChangesStatusOnlyWitness ==
    \E r \in DOMAIN reservations, q \in DOMAIN reservations :
        /\ reservations[r].status = "CANCELLED"
        /\ reservations[r].total_amount > 0
        /\ Paid(r) >= reservations[r].total_amount
        /\ reservations[q].status # "CANCELLED"

\* the fields of a reservation that are set when it is booked
Booked(r) ==
    <<r.space_id, r.check_in_date, r.start_time, r.check_out_date, r.end_time,
      r.total_amount>>

\* C27: no step of cancelReservation, registerPayment, confirmPayment,
\* removePayment or updateSpace (a new hourly rate or capacity), nor a later
\* booking, changes the total amount, the interval or the space of a reservation
\* that exists.
TotalFixedAtCreation ==
    [][\A rid \in DOMAIN reservations :
           /\ rid \in DOMAIN reservations'
           /\ Booked(reservations'[rid]) = Booked(reservations[rid])]_vars

\* a reservation of S1 for two adults priced at 100.00 an hour, CONFIRMED by its
\* payments, while S1 now costs 125.50 an hour and holds one person
TotalFixedAtCreationWitness ==
    \E rid \in DOMAIN reservations :
        /\ reservations[rid].space_id = "S1"
        /\ reservations[rid].status = "CONFIRMED"
        /\ reservations[rid].adults_count = 2
        /\ reservations[rid].total_amount = 20000
        /\ spaces["S1"].price_per_hour = 12550
        /\ spaces["S1"].capacity = 1

\* GET /spaces/:spaceId/reservations with ?date= day 0, 1 or 2, or without date
ListQueries ==
    { [date |-> d, missing |-> {}] : d \in 0 .. 2 } \cup { [date |-> 0, missing |-> {"date"}] }

\* the reservations of the space whose check-in .. check-out days contain the
\* day asked for, of any status
OnDay(spaceId, query) ==
    { i \in DOMAIN reservations :
        /\ reservations[i].space_id = spaceId
        /\ "date" \notin query.missing
             => /\ reservations[i].check_in_date <= query.date
                /\ query.date <= reservations[i].check_out_date }

\* C28: listReservationsBySpace answers 404 space_not_found for an unknown
\* space; otherwise it returns, each once, exactly the reservations of the space
\* (CANCELLED ones included) whose check-in .. check-out days contain the date,
\* or all of them without a date, by ascending check-in date and, within one
\* date, ascending start time.
ListIsExactAndOrdered ==
    \A spaceId \in {"S1", "S2", "S3", "S4", "S5"}, query \in ListQueries :
        LET outs == ListOutcomes(spaces, reservations, spaceId, query) IN
        /\ outs # {}
        /\ \A out \in outs :
               IF spaceId \notin DOMAIN spaces
               THEN out.resp = Resp(404, "space_not_found") /\ out.rows = << >>
               ELSE /\ out.resp.code = 200
                    /\ { out.rows[k] : k \in DOMAIN out.rows } = OnDay(spaceId, query)
                    /\ Len(out.rows) = Cardinality(OnDay(spaceId, query))
                    /\ \A k \in 1 .. Len(out.rows) - 1 :
                           LET a == reservations[out.rows[k]]
                               b == reservations[out.rows[k + 1]]
                           IN \/ a.check_in_date < b.check_in_date
                              \/ /\ a.check_in_date = b.check_in_date
                                 /\ a.start_time <= b.start_time

\* two reservations of one space, the later one starting first and the earlier
\* one CANCELLED and ending on day 1, so that the list for day 1 holds only the
\* CANCELLED one and the list without date holds both in the other order
ListIsExactAndOrderedWitness ==
    /\ Len(reservations) = 2
    /\ reservations[1].space_id = reservations[2].space_id
    /\ reservations[1].status = "CANCELLED"
    /\ reservations[1].check_in_date = reservations[2].check_in_date
    /\ reservations[1].start_time > reservations[2].start_time
    /\ reservations[1].check_out_date = 1
    /\ reservations[2].check_out_date = 0

\* both workers have completed a confirmPayment, answered 200, of two distinct
\* payments p and q of one reservation whose amounts together reach its
\* positive total
BothConfirmed(p, q) ==
    /\ procs[1].pc = "done" /\ procs[2].pc = "done"
    /\ procs[1].op = "confirmPayment" /\ procs[2].op = "confirmPayment"
    /\ procs[1].resp.code = 200 /\ procs[2].resp.code = 200
    /\ procs[1].target = p /\ procs[2].target = q
    /\ p # q
    /\ payments[p] # Deleted /\ payments[q] # Deleted
    /\ payments[p].reservation_id = payments[q].reservation_id
    /\ reservations[payments[p].reservation_id].total_amount > 0
    /\ payments[p].amount + payments[q].amount
         >= reservations[payments[p].reservation_id].total_amount

\* C29: once two concurrent confirmPayment calls on two distinct payments of one
\* reservation, whose amounts together reach its positive total, have both
\* completed, in whatever order their steps were taken, the reservation is
\* CONFIRMED.
NoLostConfirmation ==
    \A p \in DOMAIN payments, q \in DOMAIN payments :
        BothConfirmed(p, q)
        => reservations[payments[p].reservation_id].status = "CONFIRMED"

\* two payments of 100.00 of a reservation of 200.00, each confirmed by one of
\* the workers
NoLostConfirmationWitness ==
    \E p \in DOMAIN payments, q \in DOMAIN payments :
        /\ BothConfirmed(p, q)
        /\ payments[p].amount < reservations[payments[p].reservation_id].total_amount
        /\ payments[q].amount < reservations[payments[q].reservation_id].total_amount

\* well-formed payment requests of one cent or more
CentOrMore == { PaymentBody(a, m, {}) : a \in {100, 101, 1000000}, m \in {"PIX", "CARD"} }

=============================================================================
